---- MODULE Spec2Model ----
(***************************************************************************)
(* blooming-rs: a Bloom filter (lib.rs), a counting Bloom filter           *)
(* (counting_bloom.rs), the packed vector of saturating counters it is     *)
(* built on (packed_vec.rs) and the double-hashing stream (hashes.rs).     *)
(*                                                                         *)
(* usize is modelled as an unsigned integer of WordBits bits: every usize  *)
(* operation below is taken modulo 2^WordBits.  u64 hash values keep their *)
(* 64 bits and are held as 8 big-endian bytes.                             *)
(***************************************************************************)
EXTENDS Integers, Sequences, FiniteSets, TLC

VARIABLES
    phase,       \* "init" (nothing constructed), "live", "rejected", "panicked"
    kind,        \* what was constructed: "none", "packed", "bloom", "counting"
    pv,          \* the PackedVec (standalone, or CountingBloom.packed_vec)
    bit_vec,     \* Bloom.bit_vec
    num_hashes,  \* Bloom.num_hashes / CountingBloom.num_hashes
    digest,      \* murmur3_x64_128(key, 0) of every key: 16 bytes each
    streams,     \* the Hashes streams iterated on their own, and what they returned
    present,     \* history: per key, adds not yet undone by a remove
    intact,      \* history: key added, and no remove has touched its slots since
    everSat,     \* history: some counter has held the saturation value
    badRemove,   \* history: some remove was applied to a key that was not present
    sym,         \* history: progress of an add(k); remove(k) pair on a clean key
    last,        \* history: the last call (a filter's add: the name only)
    ops          \* history: number of mutating calls made on the standalone PackedVec

vars == <<phase, kind, pv, bit_vec, num_hashes, digest, streams, present, intact,
          everSat, badRemove, sym, last, ops>>

\* Bounds of the model.
WordBits == 8
MaxElems == 2
MaxOps == 2
MaxAdds == 4

-----------------------------------------------------------------------------
(* usize arithmetic                                                        *)

UsizeMod == 2 ^ WordBits

UsizeMax == UsizeMod - 1

Min(a, b) == IF a < b THEN a ELSE b

Max(a, b) == IF a > b THEN a ELSE b

RECURSIVE BitAnd(_, _)
BitAnd(a, b) ==
    IF a = 0 \/ b = 0 THEN 0
    ELSE (a % 2) * (b % 2) + 2 * BitAnd(a \div 2, b \div 2)

RECURSIVE BitOr(_, _)
BitOr(a, b) ==
    IF a = 0 THEN b
    ELSE IF b = 0 THEN a
    ELSE Max(a % 2, b % 2) + 2 * BitOr(a \div 2, b \div 2)

BitNot(a) == UsizeMax - a

\* a << s on usize, s < WordBits: the bits shifted past the top are dropped.
Shl(a, s) == (a % (2 ^ (WordBits - s))) * (2 ^ s)

\* a >> s on usize
Shr(a, s) == a \div (2 ^ s)

-----------------------------------------------------------------------------
(* Option<usize> and the outcome of a closure call                         *)

Some(v) == [kind |-> "some", val |-> v]

None == [kind |-> "none", val |-> 0]

Panic == [kind |-> "panic", val |-> 0]

-----------------------------------------------------------------------------
(* PackedVec                                                               *)

NoPV == [num_elem |-> 0, element_size_bits |-> 0, bucket_size_bits |-> 0,
         elements_per_bucket |-> 0, data |-> << >>]

\* ceil(a / b) for a >= 0, b > 0
CeilDiv(a, b) == (a + b - 1) \div b

PackedVecNew(n, element_size_bits) ==
    LET bucket_size_bits == WordBits
        elements_per_bucket == bucket_size_bits \div element_size_bits
        vec_size == CeilDiv(n, elements_per_bucket)
    IN  [num_elem |-> n,
         element_size_bits |-> element_size_bits,
         bucket_size_bits |-> bucket_size_bits,
         elements_per_bucket |-> elements_per_bucket,
         data |-> [b \in 1..vec_size |-> 0]]

PackedVecLen(p) == p.num_elem

BucketIndex(p, index) == index \div p.elements_per_bucket

ElementIndex(p, index) == index % p.elements_per_bucket

\* The mask without the full-width case: 1 << element_size_bits, where the
\* shift amount wraps at the word width.
ElementMaskNaive(p) == Shl(1, p.element_size_bits % WordBits) - 1

ElementMask(p) ==
    IF p.element_size_bits = WordBits THEN UsizeMax
    ELSE Shl(1, p.element_size_bits) - 1

ShiftSize(p, element_index) ==
    p.bucket_size_bits - p.element_size_bits * (element_index + 1)

\* self.data[bucket_index] is a checked access: it panics out of range.
InRange(p, index) == BucketIndex(p, index) < Len(p.data)

Bucket(p, index) == p.data[BucketIndex(p, index) + 1]

Element(p, index) ==
    BitAnd(Shr(Bucket(p, index), ShiftSize(p, ElementIndex(p, index))),
           ElementMask(p))

\* The value cut to its low bits instead of clamped.
CapValueByTruncation(value, max_value) == BitAnd(value % UsizeMod, max_value)

CapValueToValidRange(value, max_value) == Min(Max(value, 0), max_value)

\* The new field written without keeping the other fields of the word.
NewBucketOverwritten(bucket, element_mask, shift_size, new_value) ==
    Shl(new_value, shift_size)

NewBucket(bucket, element_mask, shift_size, new_value) ==
    LET clear_mask == BitNot(Shl(element_mask, shift_size))
        cleared_bucket == BitAnd(bucket, clear_mask)
    IN  BitOr(cleared_bucket, Shl(new_value, shift_size))

\* The closure's None taken as Some(0): the element is written in any case.
WithElementAlwaysWrites(p, index, r) ==
    LET element_mask == ElementMask(p)
        shift_size == ShiftSize(p, ElementIndex(p, index))
        new_value == CapValueToValidRange(IF r.kind = "some" THEN r.val ELSE 0,
                                          element_mask)
    IN  [p EXCEPT !.data[BucketIndex(p, index) + 1] =
            NewBucket(Bucket(p, index), element_mask, shift_size, new_value)]

\* with_element, given what the closure returned for the element at index:
\* the vector afterwards.
WithElement(p, index, r) ==
    IF r.kind = "some"
    THEN LET element_mask == ElementMask(p)
             shift_size == ShiftSize(p, ElementIndex(p, index))
             new_value == CapValueToValidRange(r.val, element_mask)
         IN  [p EXCEPT !.data[BucketIndex(p, index) + 1] =
                 NewBucket(Bucket(p, index), element_mask, shift_size, new_value)]
    ELSE p

\* |element| Some(element + 1).  element + 1 overflows usize only at
\* usize::MAX: with overflow checks (debug) it panics, without (release) it
\* wraps to 0.
IncrementClosure(element, overflow_checks) ==
    IF element + 1 > UsizeMax
    THEN IF overflow_checks THEN Panic ELSE Some((element + 1) % UsizeMod)
    ELSE Some(element + 1)

\* element - 1 without the test for 0: wraps to usize::MAX.
DecrementClosureWrapping(element) == Some((element - 1) % UsizeMod)

\* The counter cleared as a bit would be.
DecrementClosureReset(element) == Some(0)

DecrementClosure(element) ==
    IF element = 0 THEN Some(0) ELSE Some(element - 1)

SetClosure(element, value) == Some(value)

Increment(p, index, overflow_checks) ==
    WithElement(p, index, IncrementClosure(Element(p, index), overflow_checks))

\* The closure result dropped: the counter is read and not written back.
DecrementWithoutWriteBack(p, index) == WithElement(p, index, None)

Decrement(p, index) ==
    WithElement(p, index, DecrementClosure(Element(p, index)))

Get(p, index) == Element(p, index)

Set(p, index, value) ==
    WithElement(p, index, SetClosure(Element(p, index), value))

-----------------------------------------------------------------------------
(* The standalone PackedVec: PackedVec::new, then any calls                *)

NoCall == [op |-> "none", arg |-> 0, value |-> 0, old |-> 0, ret |-> 0]

Call(op, arg, value, old, ret) ==
    [op |-> op, arg |-> arg, value |-> value, old |-> old, ret |-> ret]

NoSym == [key |-> 0, stage |-> 0]

\* The streams iterated on their own.
StreamIds == {1, 2}

NoHashes == [base |-> << >>, increment |-> << >>]

\* A stream not made yet.  op and key: the call that made it; origin: the
\* stream as it was made; hashes: the stream now; items: what next returned.
NoStream ==
    [op |-> "none", key |-> 0, origin |-> NoHashes, hashes |-> NoHashes,
     items |-> << >>]

\* Values handed to set: small ones, one above every narrow maximum, and
\* usize::MAX.
SetValues == {0, 1, 2, 100, UsizeMax}

\* Indices handed to the calls: the valid ones and the first invalid one.
Indices == 0..PackedVecLen(pv)

InitCommon ==
    /\ phase = "init"
    /\ kind = "none"
    /\ pv = NoPV
    /\ bit_vec = << >>
    /\ num_hashes = 0
    /\ streams = [s \in StreamIds |-> NoStream]
    /\ present = << >>
    /\ intact = << >>
    /\ everSat = FALSE
    /\ badRemove = FALSE
    /\ sym = NoSym
    /\ last = NoCall
    /\ ops = 0

InitPV ==
    /\ InitCommon
    /\ digest = << >>

FilterUnchanged ==
    UNCHANGED <<bit_vec, num_hashes, digest, streams, present, intact, everSat, badRemove, sym>>

PVNew(n, element_size_bits) ==
    /\ phase = "init"
    /\ phase' = "live"
    /\ kind' = "packed"
    /\ pv' = PackedVecNew(n, element_size_bits)
    /\ last' = Call("new", n, element_size_bits, 0, 0)
    /\ UNCHANGED ops
    /\ FilterUnchanged

\* A call whose bucket access is out of range panics and leaves the vector
\* as it was.
PVOutOfRange(op, index, value) ==
    /\ ~InRange(pv, index)
    /\ phase' = "panicked"
    /\ last' = Call(op, index, value, 0, 0)
    /\ UNCHANGED <<kind, pv, ops>>
    /\ FilterUnchanged

PVIncrement(index, overflow_checks) ==
    /\ phase = "live"
    /\ kind = "packed"
    /\ ops < MaxOps
    /\ \/ PVOutOfRange("increment", index, 0)
       \/ /\ InRange(pv, index)
          /\ LET r == IncrementClosure(Element(pv, index), overflow_checks)
             IN  /\ phase' = IF r.kind = "panic" THEN "panicked" ELSE "live"
                 /\ pv' = Increment(pv, index, overflow_checks)
                 /\ last' = Call("increment", index, 0, Element(pv, index), 0)
          /\ ops' = ops + 1
          /\ UNCHANGED kind
          /\ FilterUnchanged

PVDecrement(index) ==
    /\ phase = "live"
    /\ kind = "packed"
    /\ ops < MaxOps
    /\ \/ PVOutOfRange("decrement", index, 0)
       \/ /\ InRange(pv, index)
          /\ phase' = "live"
          /\ pv' = Decrement(pv, index)
          /\ last' = Call("decrement", index, 0, Element(pv, index), 0)
          /\ ops' = ops + 1
          /\ UNCHANGED kind
          /\ FilterUnchanged

PVSet(index, value) ==
    /\ phase = "live"
    /\ kind = "packed"
    /\ ops < MaxOps
    /\ \/ PVOutOfRange("set", index, value)
       \/ /\ InRange(pv, index)
          /\ phase' = "live"
          /\ pv' = Set(pv, index, value)
          /\ last' = Call("set", index, value, Element(pv, index), 0)
          /\ ops' = ops + 1
          /\ UNCHANGED kind
          /\ FilterUnchanged

PVGet(index) ==
    /\ phase = "live"
    /\ kind = "packed"
    /\ \/ PVOutOfRange("get", index, 0)
       \/ /\ InRange(pv, index)
          /\ phase' = "live"
          /\ pv' = WithElement(pv, index, None)
          /\ last' = Call("get", index, 0, Element(pv, index), Get(pv, index))
          /\ UNCHANGED ops
          /\ UNCHANGED kind
          /\ FilterUnchanged

NextPV ==
    \/ \E n \in 1..MaxElems, e \in 1..WordBits : PVNew(n, e)
    \/ \E i \in Indices, c \in BOOLEAN : PVIncrement(i, c)
    \/ \E i \in Indices : PVDecrement(i)
    \/ \E i \in Indices, v \in SetValues : PVSet(i, v)
    \/ \E i \in Indices : PVGet(i)

SpecPV == InitPV /\ [][NextPV]_vars

-----------------------------------------------------------------------------
(* u64 values: 8 bytes, most significant first                             *)

\* LittleEndian::read_u64: the same 8 bytes, least significant first.
ReadU64LittleEndian(bytes, offset) == [i \in 1..8 |-> bytes[offset + 9 - i]]

\* BigEndian::read_u64(&bytes[offset..])
ReadU64(bytes, offset) == SubSeq(bytes, offset + 1, offset + 8)

\* u64::saturating_add: a sum past 2^64 - 1 stays at 2^64 - 1.
SaturatingAdd(a, b) ==
    LET s8 == a[8] + b[8]
        s7 == a[7] + b[7] + s8 \div 256
        s6 == a[6] + b[6] + s7 \div 256
        s5 == a[5] + b[5] + s6 \div 256
        s4 == a[4] + b[4] + s5 \div 256
        s3 == a[3] + b[3] + s4 \div 256
        s2 == a[2] + b[2] + s3 \div 256
        s1 == a[1] + b[1] + s2 \div 256
    IN  IF s1 >= 256 THEN <<255, 255, 255, 255, 255, 255, 255, 255>>
        ELSE <<s1, s2 % 256, s3 % 256, s4 % 256,
               s5 % 256, s6 % 256, s7 % 256, s8 % 256>>

\* u64::wrapping_add, byte by byte from the last: s_i is the sum at byte i
\* with the carry of the bytes after it; the carry out of the first byte is
\* dropped.
WrappingAdd(a, b) ==
    LET s8 == a[8] + b[8]
        s7 == a[7] + b[7] + s8 \div 256
        s6 == a[6] + b[6] + s7 \div 256
        s5 == a[5] + b[5] + s6 \div 256
        s4 == a[4] + b[4] + s5 \div 256
        s3 == a[3] + b[3] + s4 \div 256
        s2 == a[2] + b[2] + s3 \div 256
        s1 == a[1] + b[1] + s2 \div 256
    IN  <<s1 % 256, s2 % 256, s3 % 256, s4 % 256,
          s5 % 256, s6 % 256, s7 % 256, s8 % 256>>

\* The first i bytes of h, as a number, modulo m.
RECURSIVE PrefixRem(_, _, _)
PrefixRem(h, i, m) ==
    IF i = 0 THEN 0 ELSE (PrefixRem(h, i - 1, m) * 256 + h[i]) % m

\* hash as usize: the low WordBits bits of the u64.
AsUsize(h) == PrefixRem(h, 8, UsizeMod)

-----------------------------------------------------------------------------
(* Hashes                                                                  *)

HashesNew(hash1, hash2) == [base |-> hash1, increment |-> hash2]

\* Iterator::next: the item, and the stream afterwards.
HashesNext(h) ==
    [item |-> Some(h.base),
     stream |-> [h EXCEPT !.base = WrappingAdd(h.base, h.increment)]]

\* .take(n): the first n items of the stream.
RECURSIVE Take(_, _)
Take(h, n) ==
    IF n = 0 THEN << >>
    ELSE LET nx == HashesNext(h) IN <<nx.item.val>> \o Take(nx.stream, n - 1)

-----------------------------------------------------------------------------
(* The keys and their digests                                              *)

Keys == {1, 2}

Bytes16(b7, b11, fill) ==
    [i \in 1..16 |-> IF i = 8 THEN b7 ELSE IF i = 12 THEN b11 ELSE fill]

\* murmur3_x64_128 is external: every key gets one of these digests, fixed for
\* the run.  All zero (base 0, increment 0: every hash is the same);
\* increment ending in 1 (the hashes walk up over the slots); all ones
\* (base + increment wraps around 2^64, the hashes walk down).
DigestSamples ==
    {Bytes16(0, 0, 0), Bytes16(1, 1, 0), Bytes16(255, 255, 255)}

\* The stream an earlier call made for the key handed out again as far as it
\* has been iterated, instead of a new one.
KeyHashesResumed(key) ==
    LET made == {t \in StreamIds : streams[t].op # "none" /\ streams[t].key = key}
    IN  IF made # {} THEN streams[CHOOSE t \in made : TRUE].hashes
        ELSE HashesNew(ReadU64(digest[key], 0), ReadU64(digest[key], 4))

KeyHashes(key) ==
    LET hash_result == digest[key]
        hash1 == ReadU64(hash_result, 0)
        hash2 == ReadU64(hash_result, 4)
    IN  HashesNew(hash1, hash2)

\* Bloom::key_hashes: line for line CountingBloom::key_hashes.
BloomKeyHashes(key) ==
    LET hash_result == digest[key]
        hash1 == ReadU64(hash_result, 0)
        hash2 == ReadU64(hash_result, 4)
    IN  HashesNew(hash1, hash2)

-----------------------------------------------------------------------------
(* Hashes streams on their own: made by Hashes::new or by key_hashes, then *)
(* iterated with next, each stream at its own pace                         *)

\* The number of next calls made on one stream.
MaxNext == 3

\* Values handed to Hashes::new: 0, 1, 2^63 and 2^64 - 1.
U64Samples ==
    {<<0, 0, 0, 0, 0, 0, 0, 0>>, <<0, 0, 0, 0, 0, 0, 0, 1>>,
     <<128, 0, 0, 0, 0, 0, 0, 0>>, <<255, 255, 255, 255, 255, 255, 255, 255>>}

\* Digests whose 16 bytes all differ (00 11 22 .. ff), beside the all-ones
\* digest.
StreamDigestSamples ==
    {[i \in 1..16 |-> 17 * (i - 1)], Bytes16(255, 255, 255)}

InitHashes ==
    /\ InitCommon
    /\ digest \in [Keys -> StreamDigestSamples]

MakeStream(s, op, key, h) ==
    /\ streams[s].op = "none"
    /\ streams' = [streams EXCEPT ![s] =
           [op |-> op, key |-> key, origin |-> h, hashes |-> h, items |-> << >>]]
    /\ UNCHANGED <<phase, kind, pv, bit_vec, num_hashes, digest, present, intact,
                   everSat, badRemove, sym, last, ops>>

HashesNewCall(s, hash1, hash2) == MakeStream(s, "new", 0, HashesNew(hash1, hash2))

KeyHashesCall(s, key) == MakeStream(s, "counting", key, KeyHashes(key))

BloomKeyHashesCall(s, key) == MakeStream(s, "bloom", key, BloomKeyHashes(key))

HashesNextCall(s) ==
    /\ streams[s].op # "none"
    /\ Len(streams[s].items) < MaxNext
    /\ LET nx == HashesNext(streams[s].hashes)
       IN  streams' = [streams EXCEPT ![s].hashes = nx.stream,
                                      ![s].items = Append(@, nx.item)]
    /\ UNCHANGED <<phase, kind, pv, bit_vec, num_hashes, digest, present, intact,
                   everSat, badRemove, sym, last, ops>>

NextHashes ==
    \/ \E s \in StreamIds, hash1 \in U64Samples, hash2 \in U64Samples :
          HashesNewCall(s, hash1, hash2)
    \/ \E s \in StreamIds, k \in Keys : KeyHashesCall(s, k)
    \/ \E s \in StreamIds, k \in Keys : BloomKeyHashesCall(s, k)
    \/ \E s \in StreamIds : HashesNextCall(s)

SpecHashes == InitHashes /\ [][NextHashes]_vars

-----------------------------------------------------------------------------
(* Sizing                                                                  *)

\* max_false_prob, in thousandths
ProbSamples == {-100, 0, 30, 500, 900, 1000, 1500}

ItemSamples == {0, 1, 3}

\* The interval (0, 1]: <= for <.
ProbInHalfOpenRange(max_false_prob) == max_false_prob > 0 /\ max_false_prob <= 1000

ProbInRange(max_false_prob) == max_false_prob > 0 /\ max_false_prob < 1000

\* (1_f64 / max_false_prob).ln(), in millionths, at the sampled probabilities
LnInverse(max_false_prob) ==
    CASE max_false_prob = 10 -> 4605170
      [] max_false_prob = 30 -> 3506558
      [] max_false_prob = 500 -> 693147
      [] max_false_prob = 900 -> 105361
      [] max_false_prob = 1000 -> 0

\* 2_f64.ln(), in millionths
Ln2 == 693147

\* 2_f64.ln() * 2_f64.ln(), in millionths
Ln2Squared == 480453

\* f64::round of a / b for a >= 0, b > 0
RoundDiv(a, b) == (2 * a + b) \div (2 * b)

\* NaN as usize: 0 since the cast saturates, anything before (the cast was
\* undefined behaviour); every value but 0 behaves alike on a filter of 0 bits.
NaNAsUsize == {0, UsizeMax}

OptimalNumBits(num_items, max_false_prob) ==
    LET numerator == num_items * LnInverse(max_false_prob)
    IN  Min(RoundDiv(numerator, Ln2Squared), UsizeMax)

\* The values the cast can give: one, but for 0.0 / 0.0.
OptimalNumHashes(num_bits, num_items) ==
    IF num_items = 0
    THEN NaNAsUsize
    ELSE {Min(RoundDiv(num_bits * Ln2, num_items * 1000000), UsizeMax)}

-----------------------------------------------------------------------------
(* CountingBloom                                                           *)

\* hash as usize % count, for the hashes of one call
RECURSIVE ModCount(_, _)
ModCount(hashes, count) ==
    IF hashes = << >> THEN << >>
    ELSE <<AsUsize(Head(hashes)) % count>> \o ModCount(Tail(hashes), count)

SlotSeq(key, count) == ModCount(Take(KeyHashes(key), num_hashes), count)

SlotSet(key, count) ==
    LET slots == SlotSeq(key, count) IN {slots[i] : i \in 1..Len(slots)}

\* % count panics when count is 0 (the loop body runs only if num_hashes > 0).
DividesByZero(count) == num_hashes > 0 /\ count = 0

RECURSIVE IncrementAll(_, _)
IncrementAll(p, slots) ==
    IF slots = << >> THEN p
    ELSE IncrementAll(Increment(p, Head(slots), TRUE), Tail(slots))

RECURSIVE DecrementAll(_, _)
DecrementAll(p, slots) ==
    IF slots = << >> THEN p
    ELSE DecrementAll(Decrement(p, Head(slots)), Tail(slots))

RECURSIVE AllPositive(_, _)
AllPositive(p, slots) ==
    IF slots = << >> THEN TRUE
    ELSE (Get(p, Head(slots)) > 0) /\ AllPositive(p, Tail(slots))

CountingAdd(p, key) == IncrementAll(p, SlotSeq(key, PackedVecLen(p)))

CountingRemove(p, key) == DecrementAll(p, SlotSeq(key, PackedVecLen(p)))

CountingContains(p, key) == AllPositive(p, SlotSeq(key, PackedVecLen(p)))

\* packed_vec.get borrows the vector mutably and goes through with_element,
\* with a closure that returns None: the vector after the gets of a call.
RECURSIVE GetAll(_, _)
GetAll(p, slots) ==
    IF slots = << >> THEN p
    ELSE GetAll(WithElement(p, Head(slots), None), Tail(slots))

\* The vector after contains(key).
CountingContainsGets(p, key) == GetAll(p, SlotSeq(key, PackedVecLen(p)))

\* The counter width CountingBloom::new gives its PackedVec.
CounterBits == 4

InitFilter ==
    /\ phase = "init"
    /\ kind = "none"
    /\ pv = NoPV
    /\ bit_vec = << >>
    /\ num_hashes = 0
    /\ digest \in [Keys -> DigestSamples]
    /\ streams = [s \in StreamIds |-> NoStream]
    /\ present = [k \in Keys |-> 0]
    /\ intact = [k \in Keys |-> FALSE]
    /\ everSat = FALSE
    /\ badRemove = FALSE
    /\ sym = NoSym
    /\ last = NoCall
    /\ ops = 0

InitCB == InitFilter

\* assert!(max_false_prob > 0.0 && max_false_prob < 1.0, ..) fails: new panics
\* on its first line and nothing is built.
NewRejected(num_items, max_false_prob) ==
    /\ ~ProbInRange(max_false_prob)
    /\ phase' = "rejected"
    /\ last' = Call("new", num_items, max_false_prob, 0, 0)
    /\ UNCHANGED <<kind, pv, bit_vec, num_hashes, digest, streams, present, intact,
                   everSat, badRemove, sym, ops>>

CBNew(num_items, max_false_prob) ==
    /\ phase = "init"
    /\ \/ NewRejected(num_items, max_false_prob)
       \/ /\ ProbInRange(max_false_prob)
          /\ LET num_bits == OptimalNumBits(num_items, max_false_prob)
             IN  /\ num_hashes' \in OptimalNumHashes(num_bits, num_items)
                 /\ pv' = PackedVecNew(num_bits, CounterBits)
          /\ phase' = "live"
          /\ kind' = "counting"
          /\ last' = Call("new", num_items, max_false_prob, 0, 0)
          /\ UNCHANGED <<bit_vec, digest, streams, present, intact, everSat, badRemove,
                         sym, ops>>

\* A call that panics on % 0 before it has touched anything.
FilterPanics(op, key) ==
    /\ phase' = "panicked"
    /\ last' = Call(op, key, 0, 0, 0)
    /\ UNCHANGED <<kind, pv, bit_vec, num_hashes, digest, streams, present, intact,
                   everSat, badRemove, sym, ops>>

Saturated(p) ==
    \E s \in 0..(PackedVecLen(p) - 1) : Get(p, s) = ElementMask(p)

\* The other keys that are in the filter and share a slot with key.
Colliding(key) ==
    {j \in Keys \ {key} :
        /\ present[j] > 0
        /\ SlotSet(j, PackedVecLen(pv)) \cap SlotSet(key, PackedVecLen(pv)) # {}}

CBAdd(key) ==
    /\ phase = "live"
    /\ kind = "counting"
    /\ present[key] < MaxAdds
    /\ \/ /\ DividesByZero(PackedVecLen(pv))
          /\ FilterPanics("add", key)
       \/ /\ ~DividesByZero(PackedVecLen(pv))
          /\ pv' = CountingAdd(pv, key)
          /\ present' = [present EXCEPT ![key] = @ + 1]
          /\ intact' = [intact EXCEPT ![key] = TRUE]
          /\ everSat' = (everSat \/ Saturated(pv'))
          /\ sym' = IF present[key] = 0 /\ Colliding(key) = {}
                    THEN [key |-> key, stage |-> 1]
                    ELSE NoSym
          /\ last' = Call("add", 0, 0, 0, 0)
          /\ UNCHANGED <<phase, kind, bit_vec, num_hashes, digest, streams, badRemove, ops>>

CBRemove(key) ==
    /\ phase = "live"
    /\ kind = "counting"
    /\ \/ /\ DividesByZero(PackedVecLen(pv))
          /\ FilterPanics("remove", key)
       \/ /\ ~DividesByZero(PackedVecLen(pv))
          /\ pv' = CountingRemove(pv, key)
          /\ present' = [present EXCEPT ![key] = Max(@ - 1, 0)]
          /\ badRemove' = (badRemove \/ present[key] = 0)
          /\ intact' = [j \in Keys |->
                 /\ intact[j]
                 /\ \A s \in SlotSet(j, PackedVecLen(pv)) : Get(pv', s) >= Get(pv, s)]
          /\ sym' = IF sym = [key |-> key, stage |-> 1]
                    THEN [key |-> key, stage |-> 2]
                    ELSE NoSym
          /\ last' = Call("remove", key, 0, 0, 0)
          /\ UNCHANGED <<phase, kind, bit_vec, num_hashes, digest, streams, everSat, ops>>

CBContains(key) ==
    /\ phase = "live"
    /\ kind = "counting"
    /\ \/ /\ DividesByZero(PackedVecLen(pv))
          /\ FilterPanics("contains", key)
       \/ /\ ~DividesByZero(PackedVecLen(pv))
          /\ pv' = CountingContainsGets(pv, key)
          /\ last' = Call("contains", key, 0, 0,
                          IF CountingContains(pv, key) THEN 1 ELSE 0)
          /\ UNCHANGED <<phase, kind, bit_vec, num_hashes, digest, streams, present,
                         intact, everSat, badRemove, sym, ops>>

NextCB ==
    \/ \E n \in ItemSamples, p \in ProbSamples : CBNew(n, p)
    \/ \E k \in Keys : CBAdd(k)
    \/ \E k \in Keys : CBRemove(k)
    \/ \E k \in Keys : CBContains(k)

SpecCB == InitCB /\ [][NextCB]_vars

-----------------------------------------------------------------------------
(* Bloom                                                                   *)

\* BitVec::from_elem(num_bits, false)
BitVecFromElem(num_bits, bit) == [i \in 1..num_bits |-> bit]

\* BitVec::set(i, x); i is below the length wherever it is called here.
BitVecSet(bits, i, x) == [bits EXCEPT ![i + 1] = x]

\* BitVec::get(i)
BitVecGet(bits, i) == IF i < Len(bits) THEN Some(bits[i + 1]) ELSE None

RECURSIVE SetAll(_, _)
SetAll(bits, slots) ==
    IF slots = << >> THEN bits
    ELSE SetAll(BitVecSet(bits, Head(slots), TRUE), Tail(slots))

RECURSIVE AllSet(_, _)
AllSet(bits, slots) ==
    IF slots = << >> THEN TRUE
    ELSE BitVecGet(bits, Head(slots)).val /\ AllSet(bits, Tail(slots))

\* One hash too few: the first slot is left out.
BloomAddKeySkipsFirst(bits, key) ==
    SetAll(bits, IF num_hashes = 0 THEN << >> ELSE Tail(SlotSeq(key, Len(bits))))

BloomAddKey(bits, key) == SetAll(bits, SlotSeq(key, Len(bits)))

BloomContainsKey(bits, key) == AllSet(bits, SlotSeq(key, Len(bits)))

InitBloom == InitFilter

BloomNew(num_items, max_false_prob) ==
    /\ phase = "init"
    /\ \/ NewRejected(num_items, max_false_prob)
       \/ /\ ProbInRange(max_false_prob)
          /\ LET num_bits == OptimalNumBits(num_items, max_false_prob)
             IN  /\ num_hashes' \in OptimalNumHashes(num_bits, num_items)
                 /\ bit_vec' = BitVecFromElem(num_bits, FALSE)
          /\ phase' = "live"
          /\ kind' = "bloom"
          /\ last' = Call("new", num_items, max_false_prob, 0, 0)
          /\ UNCHANGED <<pv, digest, streams, present, intact, everSat, badRemove, sym, ops>>

BloomAdd(key) ==
    /\ phase = "live"
    /\ kind = "bloom"
    /\ present[key] < MaxAdds
    /\ \/ /\ DividesByZero(Len(bit_vec))
          /\ FilterPanics("add", key)
       \/ /\ ~DividesByZero(Len(bit_vec))
          /\ bit_vec' = BloomAddKey(bit_vec, key)
          /\ present' = [present EXCEPT ![key] = @ + 1]
          /\ last' = Call("add", key, 0, 0, 0)
          /\ UNCHANGED <<phase, kind, pv, num_hashes, digest, streams, intact, everSat,
                         badRemove, sym, ops>>

BloomContains(key) ==
    /\ phase = "live"
    /\ kind = "bloom"
    /\ \/ /\ DividesByZero(Len(bit_vec))
          /\ FilterPanics("contains", key)
       \/ /\ ~DividesByZero(Len(bit_vec))
          /\ last' = Call("contains", key, 0, 0,
                          IF BloomContainsKey(bit_vec, key) THEN 1 ELSE 0)
          /\ UNCHANGED <<phase, kind, pv, bit_vec, num_hashes, digest, streams, present, intact,
                         everSat, badRemove, sym, ops>>

NextBloom ==
    \/ \E n \in ItemSamples, p \in ProbSamples : BloomNew(n, p)
    \/ \E k \in Keys : BloomAdd(k)
    \/ \E k \in Keys : BloomContains(k)

SpecBloom == InitBloom /\ [][NextBloom]_vars

-----------------------------------------------------------------------------
(* Construction of either filter, and the queries on what it returned      *)

InitNew == InitFilter

NextNew ==
    \/ \E n \in ItemSamples, p \in ProbSamples : BloomNew(n, p)
    \/ \E n \in ItemSamples, p \in ProbSamples : CBNew(n, p)
    \/ \E k \in Keys : BloomContains(k)
    \/ \E k \in Keys : CBContains(k)

SpecNew == InitNew /\ [][NextNew]_vars

-----------------------------------------------------------------------------
(* Either filter, filled by add and queried                                *)

InitQuery == InitFilter

NextQuery ==
    \/ \E n \in ItemSamples, p \in ProbSamples : BloomNew(n, p)
    \/ \E n \in ItemSamples, p \in ProbSamples : CBNew(n, p)
    \/ \E k \in Keys : BloomAdd(k)
    \/ \E k \in Keys : CBAdd(k)
    \/ \E k \in Keys : BloomContains(k)
    \/ \E k \in Keys : CBContains(k)

SpecQuery == InitQuery /\ [][NextQuery]_vars

-----------------------------------------------------------------------------
(* Claims about the standalone PackedVec                                   *)

\* 2^element_size_bits - 1, the largest value a counter of the vector holds
MaxValue(p) == 2 ^ p.element_size_bits - 1

ValidIndex(p, index) == index < PackedVecLen(p)

LastOn(op) == last.op = op /\ ValidIndex(pv, last.arg)

\* C6: increment(i) on a valid index completes, raises a counter below
\* 2^element_bits - 1 by exactly 1 and leaves a counter at 2^element_bits - 1
\* as it is, for every element width in 1..=word width.
C6_IncrementSaturates ==
    LastOn("increment") =>
        /\ phase = "live"
        /\ Get(pv, last.arg) =
               IF last.old < MaxValue(pv) THEN last.old + 1 ELSE last.old

\* C6 on the widths below the word width (not the claim: it shows where the
\* claim fails).
C6_BelowWordWidth ==
    (LastOn("increment") /\ pv.element_size_bits < WordBits) =>
        /\ phase = "live"
        /\ Get(pv, last.arg) =
               IF last.old < MaxValue(pv) THEN last.old + 1 ELSE last.old

\* C7: decrement(i) on a valid index lowers a positive counter by exactly 1
\* and leaves a counter at 0 as it is; the counter never wraps to its maximum.
C7_DecrementClampsAtZero ==
    LastOn("decrement") =>
        /\ phase = "live"
        /\ Get(pv, last.arg) = IF last.old > 0 THEN last.old - 1 ELSE 0

\* A counter at 0 has been decremented, beside a counter that is not 0.
C7_Witness ==
    /\ LastOn("decrement")
    /\ last.old = 0
    /\ \E j \in 0..(PackedVecLen(pv) - 1) : Get(pv, j) > 0

\* C8: set(i, v) then get(i) gives min(v, 2^element_bits - 1), for every
\* element width in 1..=word width.
C8_SetGetRoundTrip ==
    LastOn("set") =>
        /\ phase = "live"
        /\ Get(pv, last.arg) = Min(last.value, MaxValue(pv))

\* A value above the maximum has been set whose low bits are not the maximum.
C8_Witness ==
    /\ LastOn("set")
    /\ last.value > MaxValue(pv)
    /\ last.value % (MaxValue(pv) + 1) # MaxValue(pv)

\* C9: set(i, v), increment(i) and decrement(i) leave get(j) as it was for
\* every other valid index j, in the same storage word or in another one.
C9_NonInterference ==
    [][(last'.op \in {"set", "increment", "decrement"}) =>
          \A j \in 0..(PackedVecLen(pv) - 1) :
              j # last'.arg => Get(pv', j) = Get(pv, j)]_vars

\* A call on index i at a saturation bound, beside a non-zero counter j of
\* the same storage word.
C9_Witness ==
    /\ last.op \in {"increment", "decrement"}
    /\ ValidIndex(pv, last.arg)
    /\ last.old \in {0, MaxValue(pv)}
    /\ \E j \in 0..(PackedVecLen(pv) - 1) :
          /\ j # last.arg
          /\ BucketIndex(pv, j) = BucketIndex(pv, last.arg)
          /\ Get(pv, j) > 0

-----------------------------------------------------------------------------
(* Claims about CountingBloom                                              *)

\* A filter is there and its calls do not divide by zero.
Queryable ==
    phase = "live" /\ kind = "counting" /\ ~DividesByZero(PackedVecLen(pv))

SharesSlot(j, k) ==
    SlotSet(j, PackedVecLen(pv)) \cap SlotSet(k, PackedVecLen(pv)) # {}

\* C2: after add(k), and as long as no remove has decremented a counter at
\* one of k's slots, contains(k) is true, whatever was added or removed
\* besides.
C2_AddedKeyIsContained ==
    Queryable => \A k \in Keys : intact[k] => CountingContains(pv, k)

\* k is intact although another key that shares none of its counters has
\* just been removed from the filter.
C2_Witness ==
    /\ Queryable
    /\ num_hashes > 0
    /\ last.op = "remove"
    /\ ~badRemove
    /\ \E k \in Keys : intact[k] /\ k # last.arg

\* C3: if every remove so far was applied to a key present at the time and no
\* counter has ever held 15, every present key is contained, also when keys
\* sharing its slots have been removed.
C3_PresentKeysContained ==
    (Queryable /\ ~badRemove /\ ~everSat) =>
        \A k \in Keys : present[k] > 0 => CountingContains(pv, k)

\* The key just removed is gone from the filter and shares a slot with a key
\* that is still present.
C3_Witness ==
    /\ Queryable
    /\ num_hashes > 0
    /\ ~badRemove
    /\ ~everSat
    /\ last.op = "remove"
    /\ present[last.arg] = 0
    /\ \E k \in Keys : k # last.arg /\ present[k] > 0 /\ SharesSlot(last.arg, k)

\* C4: if every remove so far was applied to a key present at the time, then
\* every present key is contained, also after a counter has saturated at 15.
C4_ClampingKeepsMembership ==
    (Queryable /\ ~badRemove) =>
        \A k \in Keys : present[k] > 0 => CountingContains(pv, k)

\* C5: add(k); remove(k) on a key that was not present and shares no slot
\* with a present key leaves contains(k) false, on every constructed filter.
C5_AddRemoveSymmetry ==
    (Queryable /\ sym.stage = 2) => ~CountingContains(pv, sym.key)

\* C5 on the filters with at least one hash (not the claim: it shows where
\* the claim fails).
C5_WithAHash ==
    (Queryable /\ sym.stage = 2 /\ num_hashes > 0) => ~CountingContains(pv, sym.key)

-----------------------------------------------------------------------------
(* Claims about Bloom                                                      *)

BloomQueryable ==
    phase = "live" /\ kind = "bloom" /\ ~DividesByZero(Len(bit_vec))

\* C1: once add(k) has been executed, contains(k) is true in every later
\* state, whatever is added afterwards.
C1_AddedKeyStaysContained ==
    BloomQueryable =>
        \A k \in Keys : present[k] > 0 => BloomContainsKey(bit_vec, k)

\* k was added, and the last call added another key whose slots differ from
\* k's.
C1_Witness ==
    /\ BloomQueryable
    /\ num_hashes > 0
    /\ last.op = "add"
    /\ \E k \in Keys :
          /\ k # last.arg
          /\ present[k] > 0
          /\ SlotSet(k, Len(bit_vec)) # SlotSet(last.arg, Len(bit_vec))

-----------------------------------------------------------------------------
(* Claims about construction                                               *)

Unallocated == pv = NoPV /\ bit_vec = << >>

\* C10: Bloom::new and CountingBloom::new with max_false_prob outside (0, 1)
\* fail before any backing storage is allocated, and give no filter.
C10_BadProbabilityRejected ==
    (last.op = "new" /\ ~(last.value > 0 /\ last.value < 1000)) =>
        phase = "rejected" /\ kind = "none" /\ Unallocated

\* The upper bound of the interval has been rejected.
C10_Witness ==
    /\ last.op = "new"
    /\ last.value = 1000
    /\ phase = "rejected"

\* new has returned a filter for the arguments recorded in last.
Constructed == last.op = "new" /\ phase = "live" /\ kind \in {"bloom", "counting"}

\* C11: Bloom::new and CountingBloom::new with num_items = 0 and a
\* max_false_prob inside (0, 1) fail before any backing storage is allocated,
\* and give no filter.
C11_ZeroItemsRejected ==
    (last.op = "new" /\ last.arg = 0 /\ ProbInRange(last.value)) =>
        phase = "rejected" /\ kind = "none" /\ Unallocated

\* C11 with the outcome the code has (not the claim): new(0, p) returns a
\* filter of no bits.
C11_ZeroItemsGiveEmptyFilter ==
    (Constructed /\ last.arg = 0) =>
        PackedVecLen(pv) = 0 /\ Len(bit_vec) = 0 /\ num_hashes \in NaNAsUsize

\* C12: every filter that new returns for num_items > 0 and a max_false_prob
\* inside (0, 1) has num_hashes >= 1.
C12_AtLeastOneHash ==
    (Constructed /\ last.arg > 0) => num_hashes >= 1

\* C12 on the probabilities up to one half (not the claim: it shows where the
\* claim fails).
C12_UpToOneHalf ==
    (Constructed /\ last.arg > 0 /\ last.value <= 500) => num_hashes >= 1

\* C20: on every filter new returns, contains(k) is false for every key k as
\* long as nothing has been added.
C20_EmptyContainsNothing ==
    (last.op = "contains" /\ \A k \in Keys : present[k] = 0) =>
        phase = "live" /\ last.ret = 0

\* C20 on the filters with at least one hash and one slot (not the claim: it
\* shows where the claim fails).
C20_WithAHash ==
    (last.op = "contains" /\ num_hashes > 0
        /\ PackedVecLen(pv) + Len(bit_vec) > 0) =>
        phase = "live" /\ last.ret = 0

-----------------------------------------------------------------------------
(* Claims about the indices of the standalone PackedVec                    *)

\* C13: get(index) fails for every index >= num_elem, also for an index in
\* the unused trailing slots of the last storage word, and returns a value
\* only for index < num_elem.
C13_GetChecksIndex ==
    (last.op = "get" /\ ~ValidIndex(pv, last.arg)) => phase = "panicked"

\* C13 with the outcome the code has (not the claim): get fails exactly when
\* the index is past the last storage word, and reads a trailing slot as a
\* counter.
C13_GetChecksStorageOnly ==
    last.op = "get" => (phase = "panicked" <=> ~InRange(pv, last.arg))

-----------------------------------------------------------------------------
(* Claims about the calls on whatever filter new returned                  *)

C14_TotalUnlessHashesOfNoBits ==
    (last.op \in {"add", "remove", "contains"}
        /\ (PackedVecLen(pv) + Len(bit_vec) > 0 \/ num_hashes = 0)) =>
        phase = "live"

-----------------------------------------------------------------------------
(* Claims relating increment and decrement of the standalone PackedVec     *)

\* C17: on the fresh vector and on every vector reached from it, for every
\* valid index i whose counter is below 2^element_bits - 1, increment(i)
\* raises get(i) by 1 and decrement(i) after it restores get(i) and gives
\* back the whole vector as it was before the two calls.
C17_IncrementDecrementRoundTrip ==
    (phase = "live" /\ kind = "packed") =>
        \A i \in 0..(PackedVecLen(pv) - 1), c \in BOOLEAN :
            Get(pv, i) < MaxValue(pv) =>
                LET incremented == Increment(pv, i, c)
                IN  /\ Get(incremented, i) = Get(pv, i) + 1
                    /\ Get(Decrement(incremented, i), i) = Get(pv, i)
                    /\ Decrement(incremented, i) = pv

\* increment(i) and then decrement(i) have been called on the fresh vector,
\* and the vector is the fresh one again.
C17_Witness ==
    /\ LastOn("decrement")
    /\ phase = "live"
    /\ ops = 2
    /\ last.old = 1
    /\ pv = PackedVecNew(pv.num_elem, pv.element_size_bits)

-----------------------------------------------------------------------------
(* Claims about the Hashes stream                                          *)

\* Bytes 1..i of base + n * increment, given the carry into byte i.
RECURSIVE MulAdd(_, _, _, _, _)
MulAdd(base, increment, n, i, carry) ==
    IF i = 0 THEN << >>
    ELSE LET t == base[i] + n * increment[i] + carry
         IN  Append(MulAdd(base, increment, n, i - 1, t \div 256), t % 256)

\* (base + n * increment) mod 2^64
NthValue(h, n) == MulAdd(h.base, h.increment, n, 8, 0)

\* C16: the n-th call of next (n = 0, 1, 2, ..) on a stream made with
\* (base, increment) returns Some((base + n * increment) mod 2^64): the sum
\* wraps, and next never returns None.
C16_NthValue ==
    \A s \in StreamIds :
        \A n \in 1..Len(streams[s].items) :
            streams[s].items[n] = Some(NthValue(streams[s].origin, n - 1))

\* A stream has been iterated to the end, and its first addition already
\* passed 2^64.
C16_Witness ==
    \E s \in StreamIds :
        /\ Len(streams[s].items) = MaxNext
        /\ streams[s].origin.base[1] + streams[s].origin.increment[1] >= 256

\* Made by key_hashes, of either filter.
FromKey(s) == streams[s].op \in {"counting", "bloom"}

\* C18: key_hashes takes base from bytes 0..8 of the digest and increment
\* from bytes 4..12, both big-endian, so that the low 32 bits of base are the
\* high 32 bits of increment; Bloom and CountingBloom get the same
\* (base, increment) for the same key.
C18_DigestSplit ==
    \A s \in StreamIds :
        FromKey(s) =>
            LET d == digest[streams[s].key]
                o == streams[s].origin
            IN  /\ \A i \in 1..8 : o.base[i] = d[i] /\ o.increment[i] = d[i + 4]
                /\ \A i \in 1..4 : o.base[i + 4] = o.increment[i]
                /\ \A t \in StreamIds :
                      (FromKey(t) /\ streams[t].key = streams[s].key) =>
                          streams[t].origin = o

\* Bloom and CountingBloom have each made a stream for one key, whose digest
\* has 16 different bytes.
C18_Witness ==
    \E s, t \in StreamIds, k \in Keys :
        /\ streams[s].op = "counting" /\ streams[s].key = k
        /\ streams[t].op = "bloom" /\ streams[t].key = k
        /\ \A i, j \in 1..16 : i # j => digest[k][i] # digest[k][j]

-----------------------------------------------------------------------------
(* Claims about the queries                                                *)

\* C19: PackedVec::get and CountingBloom::contains borrow mutably and go
\* through with_element, yet a contains(k) that completes leaves every
\* storage word of the counters and every bit as it was, and a contains(k)
\* right after a contains(k) returns the same result.
C19_QueriesReadOnly ==
    [][(last'.op = "contains" /\ phase' = "live") =>
          /\ pv' = pv
          /\ bit_vec' = bit_vec
          /\ (last.op = "contains" /\ last.arg = last'.arg) =>
                 last'.ret = last.ret]_vars

\* contains has found a key in a counting filter whose counters it read
\* through with_element.
C19_Witness ==
    /\ last.op = "contains"
    /\ phase = "live"
    /\ kind = "counting"
    /\ num_hashes > 0
    /\ present[last.arg] > 0
    /\ last.ret = 1

\* C19 for the standalone PackedVec (the same claim, on get): get(i) leaves
\* every storage word as it was and returns the counter it found.
C19_GetReadsOnly ==
    [][(last'.op = "get" /\ phase' = "live") =>
          pv' = pv /\ last'.ret = Get(pv, last'.arg)]_vars

====
